---- MODULE Spec2Model ----
(***************************************************************************)
(* FbTk signal/slot core (src/FbTk/Signal.hh): SignalHolder, the typed     *)
(* SignalTemplate::emit_ loop and SignalTracker.                           *)
(*                                                                         *)
(* A std::list node is named by a number that is never reused: a SlotID    *)
(* (a list iterator) is the name of its node, and the slot a node holds is *)
(* the callback wrapper created for it by connect, or NullSlot.  Control   *)
(* is single threaded: `stack' holds the emit_ calls that are suspended    *)
(* inside a callback, innermost last; any public operation may be called   *)
(* by the main program (empty stack) or by the running callback.           *)
(* Undefined behaviour (use of an erased iterator, of a destroyed signal   *)
(* or tracker) sets `ub', takes one of several outcomes and ends the run.  *)
(***************************************************************************)
EXTENDS Integers, Sequences, FiniteSets, TLC

Signals == {"sigA", "sigB"}
Trackers == {"trkA"}
Args == {"x", "y"}

\* Bounds of the model: connect/join calls in a run, nested emit_ calls.
MaxConnects == 3
MaxDepth == 2

NullSlot == 0
End == 0

NodeIds == 1..MaxConnects

\* what an undefined disconnect can hit: nothing (0) or the k-th node
Outcomes == 0..MaxConnects

VARIABLES
    sigAlive,       \* [Signals -> BOOLEAN]  constructed and not destroyed
    m_slots,        \* [Signals -> Seq([id, slot])]  SignalHolder::m_slots
    m_trackers,     \* [Signals -> SUBSET Trackers]  SignalHolder::m_trackers
    m_emitting,     \* [Signals -> Nat]              SignalHolder::m_emitting
    trkAlive,       \* [Trackers -> BOOLEAN]
    m_connections,  \* [Trackers -> [subset of Signals -> SlotID]]
    stack,          \* suspended emit_ calls, innermost last
    nextId,         \* name of the next list node to be allocated
    ub,             \* undefined behaviour has been executed
    conn,           \* history: [Signals -> Seq(slot)] connected, in connect order
    fate,           \* history: [NodeIds -> "self" | "sibling" | "-"], whether
                    \* the running callback disconnected the node as its own
                    \* or as one its emission had not reached
    last            \* history: the operation that led to this state, when it
                    \* was a join of a signal joined already, a re-entered
                    \* leave or a destructor, with what it found

vars == <<sigAlive, m_slots, m_trackers, m_emitting, trkAlive, m_connections,
          stack, nextId, ub, conn, fate, last>>

----------------------------------------------------------------------------
(* std::list<SlotPtr> *)

Ids(slots) == {slots[i].id : i \in DOMAIN slots}

Pos(slots, id) == CHOOSE i \in DOMAIN slots : slots[i].id = id

Min(S) == CHOOSE x \in S : \A y \in S : x <= y

RemoveAt(slots, p) ==
    [i \in 1..(Len(slots) - 1) |-> IF i < p THEN slots[i] ELSE slots[i + 1]]

Live(slots) == {slots[i].slot : i \in DOMAIN slots} \ {NullSlot}

\* the non-null slots of a list, in list order
LiveSeq(slots) ==
    LET full == SelectSeq(slots, LAMBDA e : e.slot # NullSlot)
    IN [i \in DOMAIN full |-> full[i].slot]

ListBegin(slots) == IF slots = <<>> THEN End ELSE slots[1].id

\* ++it
ListNext(slots, it) ==
    LET p == Pos(slots, it)
    IN IF p = Len(slots) THEN End ELSE slots[p + 1].id

\* SignalHolder::connect: m_slots.insert(m_slots.end(), slot)
FrontListConnect(slots, id) == <<[id |-> id, slot |-> id]>> \o slots

ListConnect(slots, id) == Append(slots, [id |-> id, slot |-> id])

\* SignalHolder::disconnect on a node of the list
EraseListDisconnect(slots, id, emitting) == RemoveAt(slots, Pos(slots, id))

KeepSlotListDisconnect(slots, id, emitting) ==
    IF emitting # 0 THEN slots ELSE RemoveAt(slots, Pos(slots, id))

ListDisconnect(slots, id, emitting) ==
    IF emitting # 0
    THEN [slots EXCEPT ![Pos(slots, id)].slot = NullSlot]
    ELSE RemoveAt(slots, Pos(slots, id))

\* SignalHolder::clear
EraseListClear(slots, emitting) == <<>>

ListClear(slots, emitting) ==
    IF emitting # 0
    THEN [i \in DOMAIN slots |-> [slots[i] EXCEPT !.slot = NullSlot]]
    ELSE <<>>

\* std::remove + erase of the null slots
Compact(slots) == SelectSeq(slots, LAMBDA e : e.slot # NullSlot)

\* SignalHolder::begin_emitting: ++m_emitting
NoCountBeginEmitting(emitting) == emitting

TwiceBeginEmitting(emitting) == emitting + 2

BeginEmitting(emitting) == emitting + 1

\* SignalHolder::end_emitting: the list after --m_emitting gave `emitting'
NoCompactEndEmitting(slots, emitting) == slots

EndEmitting(slots, emitting) ==
    IF emitting = 0 THEN Compact(slots) ELSE slots

\* the emit_ loop from iterator `it' up to the next slot it calls
StopAtNullScanFrom(slots, it) ==
    IF it = End THEN End
    ELSE IF slots[Pos(slots, it)].slot # NullSlot THEN it ELSE End

ScanFrom(slots, it) ==
    IF it = End THEN End
    ELSE LET p == Pos(slots, it)
             c == {i \in p..Len(slots) : slots[i].slot # NullSlot}
         IN IF c = {} THEN End ELSE slots[Min(c)].id

\* the call (**it)(arg1, arg2, arg3), as the callback observes it
Invoke(slots, it, arg) ==
    [slot |-> slots[Pos(slots, it)].slot, arg |-> arg]

----------------------------------------------------------------------------
(* std::map<SignalHolder*, SlotID> *)

EmptyMap == [s \in {} |-> End]

MapErase(m, s) == [x \in DOMAIN m \ {s} |-> m[x]]

\* insert(value): fails, leaving the map as it is, when the key is present
MapInsert(m, s, id) ==
    IF s \in DOMAIN m THEN m
    ELSE [x \in DOMAIN m \cup {s} |-> IF x = s THEN id ELSE m[x]]

\* begin(): the entry with the least key; the keys are addresses, the
\* order of two signals is fixed but arbitrary
MapBegin(m) == IF "sigA" \in DOMAIN m THEN "sigA" ELSE "sigB"

----------------------------------------------------------------------------
(* History kept for the properties: what each suspended emit_ call has     *)
(* called (log), the slots connected when it started (pre), the slots      *)
(* removed from its signal before it reached them (skip), whether clear()  *)
(* was called on its signal since it started (cleared) and whether its     *)
(* signal was changed since it started (mutated).                          *)

Visited(f) == {f.log[i].slot : i \in DOMAIN f.log}

Mark(stk, s, removed) ==
    [i \in DOMAIN stk |->
        IF stk[i].sig = s
        THEN [stk[i] EXCEPT !.mutated = TRUE,
                            !.skip = @ \cup (removed \ Visited(stk[i]))]
        ELSE stk[i]]

MarkCleared(stk, s) ==
    [i \in DOMAIN stk |->
        IF stk[i].sig = s THEN [stk[i] EXCEPT !.cleared = TRUE] ELSE stk[i]]

\* how a disconnect of node id of signal s is related to the running callback
HowGone(stk, s, id) ==
    IF stk = <<>> \/ stk[Len(stk)].sig # s THEN "-"
    ELSE IF stk[Len(stk)].it = id THEN "self"
    ELSE IF id \notin Visited(stk[Len(stk)]) THEN "sibling"
    ELSE "-"

SeqRemove(q, x) == SelectSeq(q, LAMBDA y : y # x)

----------------------------------------------------------------------------
(* The operations as functions of the part of the state they change.       *)

\* calls: the calls of SignalHolder::disconnect an operation has made, as
\* <<signal, node>>, the node End when the SlotID names no node of the list
Cur == [slots |-> m_slots, trackers |-> m_trackers, conns |-> m_connections,
        stack |-> stack, conn |-> conn, fate |-> fate, calls |-> <<>>]

Set(st) ==
    /\ m_slots' = st.slots
    /\ m_trackers' = st.trackers
    /\ m_connections' = st.conns
    /\ stack' = st.stack
    /\ conn' = st.conn
    /\ fate' = st.fate

\* Signal::connect(functor) with node id
ConnectSt(st, s, id) ==
    [st EXCEPT !.slots[s] = ListConnect(@, id),
               !.conn[s] = Append(@, id),
               !.stack = Mark(@, s, {})]

\* SignalHolder::disconnect(slotIt), slotIt a node of the list; the
\* history records the disconnect of a connected slot as `how'
DisconnectSt(st, s, id, how) ==
    [st EXCEPT !.slots[s] = ListDisconnect(@, id, m_emitting[s]),
               !.conn[s] = SeqRemove(@, id),
               !.fate[id] = IF id \in Live(st.slots[s]) THEN how ELSE @,
               !.stack = Mark(@, s, {id}),
               !.calls = Append(@, <<s, id>>)]

\* SignalHolder::disconnect(slotIt), slotIt an erased node: undefined.  The
\* write goes to freed storage (k = 0) or, when that storage was handed out
\* again, to the k-th node of the list.
StaleDisconnectSt(st, s, k) ==
    IF k = 0 \/ k > Len(st.slots[s])
    THEN [st EXCEPT !.calls = Append(@, <<s, End>>)]
    ELSE [st EXCEPT !.slots[s] = ListDisconnect(@, @[k].id, m_emitting[s]),
                    !.calls = Append(@, <<s, End>>)]

\* SignalHolder::clear
ClearSt(st, s) ==
    [st EXCEPT !.slots[s] = ListClear(@, m_emitting[s]),
               !.conn[s] = <<>>,
               !.stack = MarkCleared(Mark(@, s, Live(st.slots[s])), s)]

\* SignalTracker::disconnect(signal), called by ~SignalHolder
NoTrackerDisconnect(cs, s) == cs

TrackerDisconnect(cs, s) == MapErase(cs, s)

\* SignalTracker::join(sig, functor) with node id
NoRollbackJoinSt(st, t, s, id) ==
    LET st1 == ConnectSt(st, s, id)
    IN [st1 EXCEPT !.conns[t] = MapInsert(@, s, id),
                   !.trackers[s] = @ \cup {t}]

NoWatchJoinSt(st, t, s, id) ==
    LET st1 == ConnectSt(st, s, id)
        st2 == [st1 EXCEPT !.conns[t] = MapInsert(@, s, id)]
    IN IF s \notin DOMAIN st.conns[t] THEN st2 ELSE DisconnectSt(st2, s, id, "-")

ReplacingJoinSt(st, t, s, id) ==
    LET st1 == ConnectSt(st, s, id)
        st2 == IF s \in DOMAIN st.conns[t] /\ st.conns[t][s] \in Ids(st.slots[s])
               THEN DisconnectSt(st1, s, st.conns[t][s], "-")
               ELSE st1
    IN [st2 EXCEPT !.conns[t] = [x \in DOMAIN @ \cup {s} |->
                                    IF x = s THEN id ELSE @[x]],
                   !.trackers[s] = @ \cup {t}]

JoinSt(st, t, s, id) ==
    LET st1 == ConnectSt(st, s, id)
        inserted == s \notin DOMAIN st.conns[t]
        st2 == [st1 EXCEPT !.conns[t] = MapInsert(@, s, id)]
        st3 == IF inserted THEN st2 ELSE DisconnectSt(st2, s, id, "-")
    IN [st3 EXCEPT !.trackers[s] = @ \cup {t}]

\* the SlotID of the entry that the TrackID returned by join points to
JoinRet(st, t, s, id) == MapInsert(st.conns[t], s, id)[s]

\* the entry of tracker t for signal s names an erased node or a dead signal
Stale(st, t, s) ==
    ~sigAlive[s] \/ st.conns[t][s] \notin Ids(st.slots[s])

\* SignalTracker::leave(id, withTracker), id the entry for signal s
ForgetfulLeaveSt(st, t, s, withTracker, k, how) ==
    LET st1 == [st EXCEPT !.conns[t] = MapErase(@, s)]
    IN IF withTracker /\ sigAlive[s]
       THEN [st1 EXCEPT !.trackers[s] = @ \ {t}]
       ELSE st1

LeaveSt(st, t, s, withTracker, k, how) ==
    LET id == st.conns[t][s]
        st1 == [st EXCEPT !.conns[t] = MapErase(@, s)]
        st2 == IF ~sigAlive[s] THEN st1
               ELSE IF id \in Ids(st1.slots[s])
               THEN DisconnectSt(st1, s, id, how)
               ELSE StaleDisconnectSt(st1, s, k)
    IN IF withTracker /\ sigAlive[s]
       THEN [st2 EXCEPT !.trackers[s] = @ \ {t}]
       ELSE st2

\* SignalTracker::leave(sig)
AlwaysLeaveSignalSt(st, t, s, k, how) ==
    LET st1 == [st EXCEPT !.conns[t] = MapErase(@, s)]
    IN IF st.slots[s] = <<>> THEN st1
       ELSE [st1 EXCEPT !.slots[s] =
                ListDisconnect(@, @[Len(@)].id, m_emitting[s])]

LeaveSignalSt(st, t, s, k, how) ==
    IF s \in DOMAIN st.conns[t]
    THEN LeaveSt(st, t, s, FALSE, k, how)
    ELSE st

\* SignalTracker::leaveAll; dtor: called by ~SignalTracker
RECURSIVE LeaveAllSt(_, _, _, _)
LeaveAllSt(st, t, k, dtor) ==
    IF DOMAIN st.conns[t] = {} THEN st
    ELSE LET s == MapBegin(st.conns[t])
             how == IF dtor THEN "-" ELSE HowGone(st.stack, s, st.conns[t][s])
         IN LeaveAllSt(LeaveSt(st, t, s, TRUE, k, how), t, k, dtor)

\* SignalTracker::leave(id, withTracker) when the destructor of the slot
\* that disconnect releases calls, on the same tracker, leave(sig) for the
\* same signal (inner = "leave") or leaveAll() (inner = "leaveAll")
LateEraseReenteredLeaveSt(st, t, s, withTracker, k, how, inner) ==
    LET id == st.conns[t][s]
        st1 == IF id \in Ids(st.slots[s])
               THEN DisconnectSt(st, s, id, how)
               ELSE StaleDisconnectSt(st, s, k)
        st2 == IF inner = "leave"
               THEN LeaveSignalSt(st1, t, s, k, "-")
               ELSE LeaveAllSt(st1, t, k, FALSE)
        st3 == [st2 EXCEPT !.conns[t] = MapErase(@, s)]
    IN IF withTracker /\ sigAlive[s]
       THEN [st3 EXCEPT !.trackers[s] = @ \ {t}]
       ELSE st3

ReenteredLeaveSt(st, t, s, withTracker, k, how, inner) ==
    LET id == st.conns[t][s]
        st1 == [st EXCEPT !.conns[t] = MapErase(@, s)]
        st2 == IF ~sigAlive[s] THEN st1
               ELSE IF id \in Ids(st1.slots[s])
               THEN DisconnectSt(st1, s, id, how)
               ELSE StaleDisconnectSt(st1, s, k)
        st3 == IF inner = "leave"
               THEN LeaveSignalSt(st2, t, s, k, "-")
               ELSE LeaveAllSt(st2, t, k, FALSE)
    IN IF withTracker /\ sigAlive[s]
       THEN [st3 EXCEPT !.trackers[s] = @ \ {t}]
       ELSE st3

AnyStale(t) == \E s \in DOMAIN m_connections[t] : Stale(Cur, t, s)

Other == [op |-> "-"]

LiveCount(slots) == Cardinality(Live(slots))

----------------------------------------------------------------------------
Init ==
    /\ sigAlive = [s \in Signals |-> TRUE]
    /\ m_slots = [s \in Signals |-> <<>>]
    /\ m_trackers = [s \in Signals |-> {}]
    /\ m_emitting = [s \in Signals |-> 0]
    /\ trkAlive = [t \in Trackers |-> TRUE]
    /\ m_connections = [t \in Trackers |-> EmptyMap]
    /\ stack = <<>>
    /\ nextId = 1
    /\ ub = FALSE
    /\ conn = [s \in Signals |-> <<>>]
    /\ fate = [i \in NodeIds |-> "-"]
    /\ last = Other

\* An operation whose execution is defined when ~undefined; F(k) is its
\* effect, k the choice left open by the undefined part.  Undefined, it
\* either stops the program where it is or goes on with some k.
Resolve(undefined, F) ==
    IF ~undefined
    THEN Set(F[0]) /\ ub' = ub
    ELSE /\ ub' = TRUE
         /\ \/ UNCHANGED <<m_slots, m_trackers, m_connections, stack, conn, fate>>
            \/ \E k \in Outcomes : Set(F[k])

\* sig.connect(functor)
Connect(s) ==
    /\ ~ub /\ sigAlive[s] /\ nextId <= MaxConnects
    /\ Set(ConnectSt(Cur, s, nextId))
    /\ nextId' = nextId + 1
    /\ last' = Other
    /\ UNCHANGED <<sigAlive, m_emitting, trkAlive, ub>>

\* sig.disconnect(id), id returned by sig.connect and not yet disconnected
Disconnect(s, id) ==
    /\ ~ub /\ sigAlive[s]
    /\ id \in Ids(m_slots[s])
    /\ m_slots[s][Pos(m_slots[s], id)].slot # NullSlot
    /\ \A t \in Trackers :
          s \in DOMAIN m_connections[t] => m_connections[t][s] # id
    /\ Set(DisconnectSt(Cur, s, id, HowGone(stack, s, id)))
    /\ last' = Other
    /\ UNCHANGED <<sigAlive, m_emitting, trkAlive, nextId, ub>>

\* sig.clear()
Clear(s) ==
    /\ ~ub /\ sigAlive[s]
    /\ Set(ClearSt(Cur, s))
    /\ last' = Other
    /\ UNCHANGED <<sigAlive, m_emitting, trkAlive, nextId, ub>>

\* sig.emit(arg): begin_emitting and the loop up to its first call of a
\* slot, or, when it calls none, up to its return
EmitBegin(s, arg) ==
    /\ ~ub /\ sigAlive[s] /\ Len(stack) < MaxDepth
    /\ LET it == ScanFrom(m_slots[s], ListBegin(m_slots[s]))
       IN IF it = End
          THEN /\ m_slots' = [m_slots EXCEPT ![s] = EndEmitting(@, m_emitting[s])]
               /\ UNCHANGED <<m_emitting, stack>>
          ELSE /\ m_emitting' = [m_emitting EXCEPT ![s] = BeginEmitting(@)]
               /\ stack' = Append(stack,
                      [sig |-> s, it |-> it, arg |-> arg, depth |-> m_emitting[s],
                       log |-> <<Invoke(m_slots[s], it, arg)>>,
                       pre |-> Live(m_slots[s]), skip |-> {}, cleared |-> FALSE,
                       mutated |-> FALSE])
               /\ UNCHANGED m_slots
    /\ last' = Other
    /\ UNCHANGED <<sigAlive, m_trackers, trkAlive, m_connections, nextId, ub,
                   conn, fate>>

\* the emit_ call on top of the stack reads a destroyed signal or an
\* erased node when its callback returns
Dangling(f) == ~sigAlive[f.sig] \/ f.it \notin Ids(m_slots[f.sig])

\* the running callback returns: ++it and the loop up to the next call of a
\* slot, or up to end_emitting and the return of emit
CallbackReturn ==
    /\ ~ub /\ stack # <<>>
    /\ LET f == stack[Len(stack)]
           s == f.sig
           rest == SubSeq(stack, 1, Len(stack) - 1)
       IN IF Dangling(f)
          THEN /\ ub' = TRUE
               /\ stack' \in {stack, rest}
               /\ UNCHANGED <<m_slots, m_emitting>>
          ELSE LET it == ScanFrom(m_slots[s], ListNext(m_slots[s], f.it))
               IN /\ ub' = ub
                  /\ IF it = End
                     THEN /\ m_emitting' = [m_emitting EXCEPT ![s] = @ - 1]
                          /\ m_slots' = [m_slots EXCEPT
                                ![s] = EndEmitting(@, m_emitting[s] - 1)]
                          /\ stack' = rest
                     ELSE /\ stack' = Append(rest,
                                [f EXCEPT !.it = it,
                                   !.log = Append(@, Invoke(m_slots[s], it, f.arg))])
                          /\ UNCHANGED <<m_slots, m_emitting>>
    /\ last' = Other
    /\ UNCHANGED <<sigAlive, m_trackers, trkAlive, m_connections, nextId,
                   conn, fate>>

\* tracker.join(sig, functor)
Join(t, s) ==
    /\ ~ub /\ trkAlive[t] /\ sigAlive[s] /\ nextId <= MaxConnects
    /\ Set(JoinSt(Cur, t, s, nextId))
    /\ nextId' = nextId + 1
    /\ last' = IF s \in DOMAIN m_connections[t]
               THEN [op |-> "rejoin", trk |-> t, sig |-> s, id |-> nextId,
                     slots |-> m_slots[s], entry |-> m_connections[t][s],
                     ret |-> JoinRet(Cur, t, s, nextId)]
               ELSE Other
    /\ UNCHANGED <<sigAlive, m_emitting, trkAlive, ub>>

\* tracker.leave(id, withTracker), id the TrackID of the entry for s
Leave(t, s, withTracker) ==
    /\ ~ub /\ trkAlive[t]
    /\ s \in DOMAIN m_connections[t]
    /\ Resolve(Stale(Cur, t, s),
               [k \in Outcomes |->
                  LeaveSt(Cur, t, s, withTracker, k,
                          HowGone(stack, s, m_connections[t][s]))])
    /\ last' = Other
    /\ UNCHANGED <<sigAlive, m_emitting, trkAlive, nextId>>

\* tracker.leave(id, withTracker) with a slot whose destructor calls
\* tracker.leave(sig) or tracker.leaveAll()
LeaveReentered(t, s, withTracker, inner) ==
    /\ ~ub /\ trkAlive[t]
    /\ s \in DOMAIN m_connections[t]
    /\ LET F == [k \in Outcomes |->
                  ReenteredLeaveSt(Cur, t, s, withTracker, k,
                      HowGone(stack, s, m_connections[t][s]), inner)]
       IN /\ Resolve(IF inner = "leave" THEN Stale(Cur, t, s) ELSE AnyStale(t), F)
          /\ last' = [op |-> "reentered", trk |-> t, sig |-> s, inner |-> inner,
                      calls |-> F[0].calls]
    /\ UNCHANGED <<sigAlive, m_emitting, trkAlive, nextId>>

\* tracker.leave(sig)
LeaveSignal(t, s) ==
    /\ ~ub /\ trkAlive[t] /\ sigAlive[s]
    /\ Resolve(s \in DOMAIN m_connections[t] /\ Stale(Cur, t, s),
               [k \in Outcomes |->
                  LeaveSignalSt(Cur, t, s, k,
                      IF s \in DOMAIN m_connections[t]
                      THEN HowGone(stack, s, m_connections[t][s]) ELSE "-")])
    /\ last' = Other
    /\ UNCHANGED <<sigAlive, m_emitting, trkAlive, nextId>>

\* tracker.leaveAll()
LeaveAll(t) ==
    /\ ~ub /\ trkAlive[t]
    /\ Resolve(AnyStale(t), [k \in Outcomes |-> LeaveAllSt(Cur, t, k, FALSE)])
    /\ last' = Other
    /\ UNCHANGED <<sigAlive, m_emitting, trkAlive, nextId>>

\* the number of connected slots of signal s that tracker t remembers
Held(t, s) ==
    IF s \in DOMAIN m_connections[t] /\ m_connections[t][s] \in Live(m_slots[s])
    THEN 1 ELSE 0

\* ~SignalTracker
DestroyTracker(t) ==
    /\ ~ub /\ trkAlive[t]
    /\ Resolve(AnyStale(t), [k \in Outcomes |-> LeaveAllSt(Cur, t, k, TRUE)])
    /\ trkAlive' = IF m_connections'[t] = EmptyMap
                   THEN [trkAlive EXCEPT ![t] = FALSE] ELSE trkAlive
    /\ last' = IF trkAlive'[t] \/ \A s \in Signals : Held(t, s) = 0
               THEN Other
               ELSE [op |-> "~SignalTracker", trk |-> t,
                     held |-> [s \in Signals |-> Held(t, s)]]
    /\ UNCHANGED <<sigAlive, m_emitting, nextId>>

\* ~SignalHolder, then the destruction of m_trackers and m_slots
Notify(cs, t, s) ==
    IF t \in m_trackers[s] /\ trkAlive[t] THEN TrackerDisconnect(cs, s) ELSE cs

DestroySignal(s) ==
    /\ ~ub /\ sigAlive[s]
    /\ LET dead == {t \in m_trackers[s] : ~trkAlive[t]}
           done ==
             /\ sigAlive' = [sigAlive EXCEPT ![s] = FALSE]
             /\ m_connections' =
                  [t \in Trackers |-> Notify(m_connections[t], t, s)]
             /\ m_slots' = [m_slots EXCEPT ![s] = <<>>]
             /\ m_trackers' = [m_trackers EXCEPT ![s] = {}]
             /\ m_emitting' = [m_emitting EXCEPT ![s] = 0]
             /\ conn' = [conn EXCEPT ![s] = <<>>]
             /\ fate' = fate
             /\ last' = IF \A t \in Trackers :
                                 trkAlive[t] => s \notin DOMAIN m_connections[t]
                         THEN Other
                         ELSE [op |-> "~SignalHolder", sig |-> s,
                               joined |-> {t \in Trackers :
                                   trkAlive[t] /\ s \in DOMAIN m_connections[t]}]
             /\ stack' = Mark(stack, s, Live(m_slots[s]))
       IN IF dead = {}
          THEN done /\ ub' = ub
          ELSE /\ ub' = TRUE
               /\ \/ done
                  \/ /\ last' = Other
                     /\ UNCHANGED <<sigAlive, m_connections, m_slots,
                                    m_trackers, m_emitting, conn, fate, stack>>
    /\ UNCHANGED <<trkAlive, nextId>>

\* the operations of a signal, on the signals sigs with the arguments args
SignalOps(sigs, args) ==
    \/ \E s \in sigs : Connect(s)
    \/ \E s \in sigs, id \in NodeIds : Disconnect(s, id)
    \/ \E s \in sigs : Clear(s)
    \/ \E s \in sigs, arg \in args : EmitBegin(s, arg)
    \/ CallbackReturn

\* the operations of a tracker, on the signals sigs
TrackerOpsOn(sigs) ==
    \/ \E t \in Trackers, s \in sigs : Join(t, s)
    \/ \E t \in Trackers, s \in sigs, w \in BOOLEAN : Leave(t, s, w)
    \/ \E t \in Trackers, s \in sigs, w \in BOOLEAN :
          \E inner \in {"leave", "leaveAll"} : LeaveReentered(t, s, w, inner)
    \/ \E t \in Trackers, s \in sigs : LeaveSignal(t, s)
    \/ \E t \in Trackers : LeaveAll(t)
    \/ \E t \in Trackers : DestroyTracker(t)

TrackerOps == TrackerOpsOn(Signals)

\* Signals, a tracker and their destruction.  emit_ passes its arguments on
\* and nothing else reads them: here every emit has the same argument.
Next ==
    \/ SignalOps(Signals, {"x"})
    \/ TrackerOps
    \/ \E s \in Signals : DestroySignal(s)

Spec == Init /\ [][Next]_vars

\* One signal used through connect, disconnect, clear and emit alone, with
\* emits of different arguments.
NextSignal == SignalOps({"sigA"}, Args)

SpecSignal == Init /\ [][NextSignal]_vars

\* The emissions of one signal.  Every callback returns: a callback running at depth d of the call stack
\* does not go on forever calling operations, emits that return included,
\* and the emit_ call that waits for it goes on.
\* One signal and a tracker, neither destroyed by a callback of the signal.
NextEmit == SignalOps({"sigA"}, {"x"}) \/ TrackerOpsOn({"sigA"})

FairSpec ==
    /\ Init /\ [][NextEmit]_vars
    /\ \A d \in 1..MaxDepth : SF_vars(CallbackReturn /\ Len(stack) = d)

----------------------------------------------------------------------------
(* Properties *)

Top(stk) == stk[Len(stk)]

\* the step returns from the innermost emit_ call
Returns == stack # <<>> /\ stack' = SubSeq(stack, 1, Len(stack) - 1)

\* the slots the step calls
Invoked ==
    IF stack' = <<>> THEN {}
    ELSE IF Len(stack') > Len(stack) THEN {Top(stack').log[1].slot}
    ELSE IF /\ Len(stack') = Len(stack)
            /\ Len(Top(stack').log) > Len(Top(stack).log)
         THEN {Top(stack').log[Len(Top(stack').log)].slot}
         ELSE {}

\* what an emit_ call with the frame f calls when it calls the connected
\* slots c of its signal in connect order with its argument
Expected(f, c) == [i \in DOMAIN c |-> [slot |-> c[i], arg |-> f.arg]]

IsPrefix(p, q) == Len(p) <= Len(q) /\ \A i \in DOMAIN p : p[i] = q[i]

NoDup(q) == \A i, j \in DOMAIN q : q[i] = q[j] => i = j

Tombstones(slots) == {i \in DOMAIN slots : slots[i].slot = NullSlot}

C4_NoEraseWhileEmitting ==
    [][\A s \in Signals :
          (sigAlive[s] /\ sigAlive'[s] /\ m_emitting[s] > 0 /\ m_emitting'[s] > 0)
          => /\ Len(m_slots'[s]) >= Len(m_slots[s])
             /\ \A i \in DOMAIN m_slots[s] :
                   /\ m_slots'[s][i].id = m_slots[s][i].id
                   /\ m_slots'[s][i].slot \in {m_slots[s][i].slot, NullSlot}]_vars

\* a nested emit has returned and the tracker has left, from a callback of
\* an emission that is still running: the tombstones are in the list
C4_Witness ==
    \E s \in Signals :
        /\ m_emitting[s] = 1 /\ Len(stack) = 1
        /\ Cardinality(Tombstones(m_slots[s])) >= 2
        /\ Live(m_slots[s]) # {}
        /\ m_connections["trkA"] = EmptyMap /\ "trkA" \in m_trackers[s]

ReturnsToZero(s) ==
    /\ Returns /\ ~ub'
    /\ Top(stack).sig = s /\ m_emitting[s] = 1 /\ m_emitting'[s] = 0

\* the step is the first clear() of s since some running emit of s started
ClearsWhileEmitting(s) ==
    /\ m_emitting[s] > 0 /\ Len(stack') = Len(stack)
    /\ \E i \in DOMAIN stack :
          stack[i].sig = s /\ ~stack[i].cleared /\ stack'[i].cleared

\* C6 as claimed: clear() during an emission erases no node, and when the
\* emission depth is back at zero the list is empty.
C6_ClearedListEmptyAtDepthZero ==
    [][\A s \in Signals :
          /\ ClearsWhileEmitting(s) =>
                /\ Len(m_slots'[s]) = Len(m_slots[s])
                /\ Live(m_slots'[s]) = {}
          /\ (ReturnsToZero(s) /\ Top(stack).cleared) => m_slots'[s] = <<>>]_vars

\* C6, amended: clear() during an emission erases no node, it overwrites
\* every slot of the list with the null slot; when the emission depth is
\* back at zero the list holds no null slot and exactly the slots connected
\* after the clear and still connected, so it is empty if there is none.
C6_ClearDeferredUntilDepthZero ==
    [][\A s \in Signals :
          /\ ClearsWhileEmitting(s) =>
                /\ Len(m_slots'[s]) = Len(m_slots[s])
                /\ \A i \in DOMAIN m_slots[s] : m_slots'[s][i].id = m_slots[s][i].id
                /\ Live(m_slots'[s]) = {}
          /\ (ReturnsToZero(s) /\ Top(stack).cleared) =>
                /\ Tombstones(m_slots'[s]) = {}
                /\ LiveSeq(m_slots'[s]) = conn[s]
                /\ (conn[s] = <<>> => m_slots'[s] = <<>>)]_vars

\* a callback has cleared its signal and connected a slot to it: the list
\* holds the cleared nodes and, behind them, the new slot
C6_Witness ==
    /\ Len(stack) = 1 /\ Top(stack).cleared
    /\ Tombstones(m_slots[Top(stack).sig]) # {}
    /\ Len(conn[Top(stack).sig]) = 1
    /\ m_emitting[Top(stack).sig] = 1

\* C7: no live signal has a destroyed tracker in its watching set.
C7_NoDestroyedWatcher ==
    \A s \in Signals : sigAlive[s] => \A t \in m_trackers[s] : trkAlive[t]

\* C8: no entry of a live tracker names a destroyed signal: the destructor
\* of the signal has removed it, and leave and leaveAll find none.
C8_DestroyedSignalForgotten ==
    \A t \in Trackers :
        trkAlive[t] => \A s \in DOMAIN m_connections[t] : sigAlive[s]

\* a signal that the live tracker had joined has been destroyed
C8_Witness ==
    /\ last.op = "~SignalHolder" /\ last.joined = {"trkA"}
    /\ trkAlive["trkA"] /\ ~ub
    /\ ~sigAlive[last.sig]

C10_RejoinKeepsListLength ==
    last.op = "rejoin" => Len(m_slots[last.sig]) = Len(last.slots)

\* C10, amended: a join of a signal the tracker has joined already leaves
\* the tracker's entry and the connected slots of the signal as they were;
\* the list is unchanged when the signal is not emitting, and when it is
\* emitting the list is longer by the new node, which holds the null slot.
C10_RejoinKeepsOneConnection ==
    last.op = "rejoin" =>
        LET s == last.sig
        IN /\ m_connections[last.trk][s] = last.entry
           /\ LiveSeq(m_slots[s]) = LiveSeq(last.slots)
           /\ m_slots[s] = IF m_emitting[s] = 0 THEN last.slots
                           ELSE Append(last.slots, [id |-> last.id, slot |-> NullSlot])

\* the tracker has joined again, from a callback, the emitting signal on
\* which it holds a connected slot
C10_Witness ==
    /\ last.op = "rejoin"
    /\ m_emitting[last.sig] > 0
    /\ last.entry \in Live(m_slots[last.sig])

InProgress(s) == {i \in DOMAIN stack : stack[i].sig = s}

\* C12: no emit_ call in progress is one on a destroyed signal; such a call
\* reads the list and the counter of its signal when its callback returns.
C12_NoEmitOnDestroyedSignal ==
    \A i \in DOMAIN stack : sigAlive[stack[i].sig]

\* C13: the list of a signal whose emission depth is 0 holds no empty slot.
C13_NoTombstoneAtDepthZero ==
    \A s \in Signals :
        (sigAlive[s] /\ m_emitting[s] = 0) => Tombstones(m_slots[s]) = {}

\* no emission is running; slot 1 disconnected itself and slot 2, both in
\* sigA, from its callback, and sigA holds the slot connected after them
C13_Witness ==
    /\ stack = <<>> /\ ~ub
    /\ fate[1] = "self" /\ fate[2] = "sibling"
    /\ m_slots["sigA"] = <<[id |-> 3, slot |-> 3]>>

\* C14: the emission depth of a signal is the number of emit_ calls on it
\* that have started and not returned, so it is 0 when there is none.
C14_DepthCountsEmitsInProgress ==
    \A s \in Signals :
        sigAlive[s] =>
            /\ m_emitting[s] >= 0
            /\ m_emitting[s] = Cardinality(InProgress(s))

\* a callback of sigA has emitted sigA again; sigB is not emitting
C14_Witness ==
    /\ ~ub /\ InProgress("sigA") = {1, 2}
    /\ m_emitting["sigA"] = 2 /\ m_emitting["sigB"] = 0
    /\ sigAlive["sigB"]

\* C15: a join of a signal for which the tracker has an entry leaves every
\* entry of the tracker as it is and returns that entry; it leaves every
\* node that was in the list of the signal in its place with its slot, it
\* leaves the new connection disconnected, and it changes no other list.
C15_RejoinLeavesEntryUntouched ==
    [][last'.op = "rejoin" =>
          LET t == last'.trk
              s == last'.sig
          IN /\ s \in DOMAIN m_connections[t]
             /\ m_connections' = m_connections
             /\ last'.ret = m_connections[t][s]
             /\ \A i \in DOMAIN m_slots[s] : m_slots'[s][i] = m_slots[s][i]
             /\ last'.id \notin Live(m_slots'[s]) \cup Live(m_slots[s])
             /\ \A s2 \in Signals \ {s} : m_slots'[s2] = m_slots[s2]
             /\ m_trackers' = [m_trackers EXCEPT ![s] = @ \cup {t}]]_vars

\* the tracker, joined to both signals, has joined again a signal that is
\* not emitting: its first connection is connected, the second is not
C15_Witness ==
    /\ last.op = "rejoin" /\ ~ub
    /\ DOMAIN m_connections[last.trk] = Signals
    /\ m_emitting[last.sig] = 0
    /\ last.ret \in Live(m_slots[last.sig])
    /\ last.id \notin Ids(m_slots[last.sig])

\* the list of signal s after the one disconnect of the entry of t for s
LeftOnce(t, s) ==
    ListDisconnect(m_slots[s], m_connections[t][s], m_emitting[s])

\* C16: when the disconnect that leave(id) triggers calls leave(sig) for the
\* same signal or leaveAll() on the same tracker, and every entry left names
\* a node of its list, the entry is gone, the inner call makes no disconnect
\* call on the signal, and every connection that is left is disconnected by
\* exactly one call: an inner leave(sig) changes nothing, an inner leaveAll
\* leaves the other entries of the tracker.
C16_ReenteredLeaveDisconnectsOnce ==
    [][(last'.op = "reentered" /\ ~ub') =>
          LET t == last'.trk
              s == last'.sig
              left == IF last'.inner = "leave" THEN {s} ELSE DOMAIN m_connections[t]
          IN /\ s \in DOMAIN m_connections[t]
             /\ m_connections'[t] = [x \in DOMAIN m_connections[t] \ left |->
                                        m_connections[t][x]]
             /\ last'.calls[1] = <<s, m_connections[t][s]>>
             /\ \A i, j \in DOMAIN last'.calls :
                   last'.calls[i][1] = last'.calls[j][1] => i = j
             /\ {last'.calls[i] : i \in DOMAIN last'.calls} =
                   {<<x, m_connections[t][x]>> : x \in left}
             /\ \A x \in Signals :
                   m_slots'[x] = IF x \in left THEN LeftOnce(t, x) ELSE m_slots[x]]_vars

\* a leave of sigA whose disconnect called leaveAll has left both signals,
\* by one disconnect call each, and each signal keeps another slot
C16_Witness ==
    /\ last.op = "reentered" /\ ~ub
    /\ last.inner = "leaveAll" /\ last.sig = "sigA"
    /\ Len(last.calls) = 2
    /\ m_connections[last.trk] = EmptyMap
    /\ \E s \in Signals : LiveCount(m_slots[s]) = 1

\* C17: every connected slot that an emit_ call in progress has not called
\* is behind the scan position of that call, so a slot connected while the
\* signal emits is; and a call that returns has called every slot that is
\* connected when it returns, the ones connected during the call included.
C17_ConnectedWhileEmittingIsCalled ==
    [][/\ \A i \in DOMAIN stack' :
             LET f == stack'[i]
                 slots == m_slots'[f.sig]
             IN (sigAlive'[f.sig] /\ ~ub') =>
                   /\ f.it \in Ids(slots)
                   /\ \A x \in Live(slots) \ Visited(f) :
                         Pos(slots, x) > Pos(slots, f.it)
       /\ (Returns /\ ~ub') =>
             Live(m_slots[Top(stack).sig]) \subseteq Visited(Top(stack))]_vars

\* the emission of sigA that began with slot 1 alone has called slots 2
\* and 3, which its callbacks connected
C17_Witness ==
    /\ Len(stack) = 1 /\ ~ub
    /\ Top(stack).sig = "sigA" /\ Top(stack).pre = {1}
    /\ Visited(Top(stack)) = {1, 2, 3}

\* C18: every entry of a live tracker names a live signal and a node of its
\* list that holds a connected slot.
C18_EntriesNameConnectedSlots ==
    \A t \in Trackers :
        trkAlive[t] =>
            \A s \in DOMAIN m_connections[t] :
                /\ sigAlive[s]
                /\ m_connections[t][s] \in Ids(m_slots[s])
                /\ m_connections[t][s] \in Live(m_slots[s])

\* C19: a live tracker is in the watching set of every signal it has an
\* entry for.
C19_EntryImpliesWatcher ==
    \A t \in Trackers :
        trkAlive[t] =>
            \A s \in DOMAIN m_connections[t] :
                sigAlive[s] /\ t \in m_trackers[s]

\* the tracker, joined to both signals, has left sigA with unwatch, its
\* disconnect calling leave(sigA) again: it watches sigB alone, for which
\* it has its entry
C19_Witness ==
    /\ last.op = "reentered" /\ last.inner = "leave" /\ last.sig = "sigA"
    /\ ~ub /\ trkAlive["trkA"]
    /\ DOMAIN m_connections["trkA"] = {"sigB"}
    /\ "trkA" \in m_trackers["sigB"] /\ "trkA" \notin m_trackers["sigA"]
    /\ sigAlive["sigA"]

\* C20: when every callback returns and undefined behaviour is not executed,
\* an emit_ call in progress returns, whatever the callbacks do with the
\* connections the run has, and when it returns the emission depth of its
\* signal is what it was when the call began.
C20_EmitReturnsAndRestoresDepth ==
    /\ [][(Returns /\ ~ub') =>
             /\ m_emitting'[Top(stack).sig] = Top(stack).depth
             /\ \A s \in Signals \ {Top(stack).sig} : m_emitting'[s] = m_emitting[s]]_vars
    /\ \A d \in 1..MaxDepth :
          (Len(stack) = d /\ ~ub) ~> (Len(stack) < d \/ ub)

\* an emission of sigA is two calls on, after its callbacks cleared the
\* signal, joined it and connected another slot to it
C20_Witness ==
    /\ Len(stack) = 1 /\ ~ub
    /\ Top(stack).sig = "sigA" /\ Top(stack).cleared
    /\ Len(Top(stack).log) = 2
    /\ "sigA" \in DOMAIN m_connections["trkA"]
    /\ LiveCount(m_slots["sigA"]) = 2

====
